---- MODULE Spec2Model ----
(***************************************************************************)
(* Model of the amount-to-words converter of src/app/dashboard/page.jsx:   *)
(* numberToArabicWords, its inner underThousand, and                      *)
(* formatArabicCurrencyWords.                                              *)
(*                                                                         *)
(* Strings.  A JavaScript string is modelled as the sequence of its words  *)
(* and of the single spaces between them: the token SP is one space        *)
(* character, every other token is one word, written here in a Latin       *)
(* transliteration of the Arabic word of the source.  The conjunction      *)
(* (the one-letter word waw) is the token WA.  Concatenation of strings is *)
(* \o, the empty string is << >>.                                          *)
(*                                                                         *)
(* Numbers.  A JavaScript number is NaN, an infinity, or a finite value    *)
(*     (neg ? -1 : 1) * (hi * 10^9 + lo + th / 1000)                       *)
(* with hi >= 0, lo in 0..10^9-1 and th in 0..999, so that values above    *)
(* 2^31 and values with up to three decimals are both representable.       *)
(***************************************************************************)
EXTENDS Integers, Sequences, FiniteSets, TLC

VARIABLES
    fn,         \* the function being run
    pc,         \* position in that function
    arg,        \* numberToArabicWords: the value passed as n
    n,          \* numberToArabicWords: the parameter n (reassigned at entry)
    idx,        \* numberToArabicWords: index of the next entry of scales
    remainder,  \* numberToArabicWords: let remainder
    words,      \* numberToArabicWords: let words (array of segments)
    q,          \* numberToArabicWords: const q of the last tier entered
    qWords,     \* numberToArabicWords: let qWords of the last tier entered
    scaleWord,  \* numberToArabicWords: let scaleWord of the last tier entered
    num,        \* underThousand: the argument of a direct call
    amount,     \* formatArabicCurrencyWords: the argument amount
    currencyMain, \* formatArabicCurrencyWords: the argument currencyMain
    currencySub,  \* formatArabicCurrencyWords: the argument currencySub
    integer,    \* formatArabicCurrencyWords: const integer
    fraction,   \* formatArabicCurrencyWords: const fraction
    str,        \* toArabicNumerals: the argument str
    ret,        \* the value returned
    form,       \* Dashboard: the state form
    useExcelRows,        \* Dashboard: the state useExcelRows
    useCurruntRowIndex,  \* Dashboard: the state useCurruntRowIndex
    amountWords,         \* Dashboard: the memo amountWords
    templates,           \* Dashboard: the state templates
    selectedTemplateId,  \* Dashboard: the state selectedTemplateId
    editMode,            \* Dashboard: the state editMode
    now,                 \* the clock read by Date.now()
    isInitialized,       \* useLocalStorage: the state isInitialized of each key
    localStorage,        \* the stored text of each key
    pending,             \* useLocalStorage: the state set by an effect, not yet rendered
    effects              \* useLocalStorage: the effects that wait to run, in order

\* the state of the Dashboard component
uiVars == <<form, useExcelRows, useCurruntRowIndex, amountWords>>

\* the templates and their selection
templateVars == <<templates, selectedTemplateId, editMode, now>>

\* the state of useLocalStorage
storageVars == <<isInitialized, localStorage, pending, effects>>

vars == <<fn, pc, arg, n, idx, remainder, words, q, qWords, scaleWord, num,
          amount, currencyMain, currencySub, integer, fraction, str, ret,
          uiVars, templateVars, storageVars>>

----------------------------------------------------------------------------
(* Strings *)

SP == " "
WA == "wa"

\* The separator " wa " of parts.join and words.join, and of the templates.
Sep == <<SP, WA, SP>>

\* The value undefined, where a string is expected (an array element that
\* does not exist).  No string holds this token.
Undefined == <<"#undefined">>

\* Template-literal interpolation ${v}: undefined becomes the word
\* "undefined".
Interpolate(v) == IF v = Undefined THEN <<"undefined">> ELSE v

\* One element of Array.prototype.join: undefined becomes the empty string.
JoinElement(v) == IF v = Undefined THEN << >> ELSE v

RECURSIVE Join(_, _)
\* Array.prototype.join(sep).
Join(parts, sep) ==
    IF Len(parts) = 0 THEN << >>
    ELSE IF Len(parts) = 1 THEN JoinElement(parts[1])
    ELSE JoinElement(parts[1]) \o sep \o Join(Tail(parts), sep)

----------------------------------------------------------------------------
(* Numbers *)

Billion  == 1000000000
Million  == 1000000
Thousand == 1000

Num(neg, hi, lo, th) ==
    [t |-> "num", neg |-> neg, hi |-> hi, lo |-> lo, th |-> th]
IntNum(k) == Num(FALSE, 0, k, 0)
NaN == [t |-> "nan", neg |-> FALSE, hi |-> 0, lo |-> 0, th |-> 0]
Infinity(neg) == [t |-> "inf", neg |-> neg, hi |-> 0, lo |-> 0, th |-> 0]

isFinite(x) == x.t = "num"
IsInteger(x) == x.t = "num" /\ x.th = 0
\* x === 0 (true of +0 and of -0)
IsZero(x) == x.t = "num" /\ x.hi = 0 /\ x.lo = 0 /\ x.th = 0
\* ToBoolean of a number: 0, -0 and NaN are falsy
Truthy(x) == x.t = "inf" \/ (x.t = "num" /\ ~IsZero(x))

\* x >= v, x < v and x === v for a finite x and an integer literal
\* v in 1..10^9
GE(x, v) == ~x.neg /\ (x.hi > 0 \/ x.lo >= v)
LT(x, v) == ~GE(x, v)
EQ(x, v) == ~x.neg /\ x.hi = 0 /\ x.lo = v /\ x.th = 0

\* Math.floor(x / v) for a finite x and v a power of ten in 10..10^9
FloorDiv(x, v) ==
    LET c    == Billion \div v
        fhi  == x.hi \div v
        flo  == (x.hi % v) * c + (x.lo \div v)
        up   == x.neg /\ (x.lo % v # 0 \/ x.th # 0)
        clo  == IF up THEN flo + 1 ELSE flo
    IN  IF clo = Billion THEN Num(x.neg, fhi + 1, 0, 0)
        ELSE Num(x.neg, fhi, clo, 0)

\* x % v for a finite x and v a power of ten in 10..10^9: the remainder has
\* the sign of the dividend
Mod(x, v) == Num(x.neg, 0, x.lo % v, x.th)

\* arr[x] of a JavaScript array (first index 0): undefined unless x is an
\* integer index of the array
Index(arr, x) ==
    IF IsZero(x) THEN arr[1]
    ELSE IF IsInteger(x) /\ ~x.neg /\ x.hi = 0 /\ x.lo < Len(arr) THEN arr[x.lo + 1]
    ELSE Undefined

\* x <= v for a finite x and an integer literal v in 1..10^9
LE(x, v) == x.neg \/ (x.hi = 0 /\ (x.lo < v \/ (x.lo = v /\ x.th = 0)))

----------------------------------------------------------------------------
(* Number(v): the conversion of a JavaScript value to a number.  The values *)
(* modelled are the numbers, undefined, null and the strings over the       *)
(* characters " ", "7" and "a" (a string is the sequence of its             *)
(* characters).                                                             *)

undefined == [t |-> "undefined"]
null == [t |-> "null"]
Str(chars) == [t |-> "str", s |-> chars]

IsNumber(v) == v.t \in {"num", "nan", "inf"}

RECURSIVE TrimLeft(_)
TrimLeft(chars) ==
    IF Len(chars) > 0 /\ Head(chars) = " " THEN TrimLeft(Tail(chars)) ELSE chars

RECURSIVE TrimRight(_)
TrimRight(chars) ==
    IF Len(chars) > 0 /\ chars[Len(chars)] = " "
    THEN TrimRight(SubSeq(chars, 1, Len(chars) - 1)) ELSE chars

DigitValue(c) == CASE c = "7" -> 7 [] c = "1" -> 1

RECURSIVE DecimalValue(_)
\* the value of a non-empty string of decimal digits
DecimalValue(chars) ==
    IF Len(chars) = 0 THEN 0
    ELSE 10 * DecimalValue(SubSeq(chars, 1, Len(chars) - 1))
         + DigitValue(chars[Len(chars)])

\* StringToNumber with the empty string taken for no number
StringToNumber_EmptyNaN(chars) ==
    LET body == TrimRight(TrimLeft(chars))
        neg  == Len(body) > 0 /\ Head(body) = "-"
        lit  == IF neg THEN Tail(body) ELSE body
    IN  IF Len(body) = 0 THEN NaN
        ELSE IF lit = <<"Infinity">> THEN Infinity(neg)
        ELSE IF Len(lit) > 0 /\ \A k \in 1..Len(lit) : lit[k] \in {"1", "7"}
             THEN Num(neg, 0, DecimalValue(lit), 0)
        ELSE NaN

\* StringToNumber: white space is stripped; the empty string is +0, a string
\* of digits with an optional sign is its value, the literal Infinity (one
\* token of the string) with an optional sign is an infinity, and what is no
\* numeric literal is NaN
StringToNumber(chars) ==
    LET body == TrimRight(TrimLeft(chars))
        neg  == Len(body) > 0 /\ Head(body) = "-"
        lit  == IF neg THEN Tail(body) ELSE body
    IN  IF Len(body) = 0 THEN IntNum(0)
        ELSE IF lit = <<"Infinity">> THEN Infinity(neg)
        ELSE IF Len(lit) > 0 /\ \A k \in 1..Len(lit) : lit[k] \in {"1", "7"}
             THEN Num(neg, 0, DecimalValue(lit), 0)
        ELSE NaN

Number(v) ==
    CASE IsNumber(v)       -> v
      [] v.t = "undefined" -> NaN
      [] v.t = "null"      -> IntNum(0)
      [] v.t = "str"       -> StringToNumber(v.s)

----------------------------------------------------------------------------
(* The lexicon of numberToArabicWords.  Index k of a JavaScript array is    *)
(* element k + 1 of the sequence.                                           *)
(*   ones: wahid 1, ithnan 2, thalatha 3, arbaa 4, khamsa 5, sitta 6,       *)
(*     sabaa 7, thamaniya 8, tisaa 9, ashara 10, then the teens, each of    *)
(*     two words ("ahad ashar" 11, "ithna ashar" 12, "thalatha ashar" 13..) *)
(*   tens: ishrun 20 .. tisun 90;  hundreds: mia 100, miatan 200, ..        *)
(*   scales: milyar / milyaran / milyarat, milyun / milyunan / malayin,     *)
(*     alf / alfan / alaf;  sifr is the word for zero.                      *)

\* the word for zero left empty
Sifr_Empty == << >>

Sifr == <<"sifr">>

ones == <<
    << >>,
    <<"wahid">>,
    <<"ithnan">>,
    <<"thalatha">>,
    <<"arbaa">>,
    <<"khamsa">>,
    <<"sitta">>,
    <<"sabaa">>,
    <<"thamaniya">>,
    <<"tisaa">>,
    <<"ashara">>,
    <<"ahad", SP, "ashar">>,
    <<"ithna", SP, "ashar">>,
    <<"thalatha", SP, "ashar">>,
    <<"arbaa", SP, "ashar">>,
    <<"khamsa", SP, "ashar">>,
    <<"sitta", SP, "ashar">>,
    <<"sabaa", SP, "ashar">>,
    <<"thamaniya", SP, "ashar">>,
    <<"tisaa", SP, "ashar">>
>>

tens == << << >>, << >>, <<"ishrun">>, <<"thalathun">>, <<"arbaun">>,
           <<"khamsun">>, <<"sittun">>, <<"sabun">>, <<"thamanun">>,
           <<"tisun">> >>

hundreds == << << >>, <<"mia">>, <<"miatan">>, <<"thalathumia">>,
               <<"arbaumia">>, <<"khamsumia">>, <<"sittumia">>,
               <<"sabumia">>, <<"thamanumia">>, <<"tisumia">> >>

\* scales listed from the smallest tier to the largest
scales_Ascending == <<
    [value |-> Thousand, sing |-> <<"alf">>,    dual |-> <<"alfan">>,    plural |-> <<"alaf">>],
    [value |-> Million,  sing |-> <<"milyun">>, dual |-> <<"milyunan">>, plural |-> <<"malayin">>],
    [value |-> Billion,  sing |-> <<"milyar">>, dual |-> <<"milyaran">>, plural |-> <<"milyarat">>]
>>

scales == <<
    [value |-> Billion,  sing |-> <<"milyar">>, dual |-> <<"milyaran">>, plural |-> <<"milyarat">>],
    [value |-> Million,  sing |-> <<"milyun">>, dual |-> <<"milyunan">>, plural |-> <<"malayin">>],
    [value |-> Thousand, sing |-> <<"alf">>,    dual |-> <<"alfan">>,    plural |-> <<"alaf">>]
>>

----------------------------------------------------------------------------
(* underThousand *)

\* TensOnes with the tens word before the ones word
TensOnes_TensFirst(t) ==
    LET ten == FloorDiv(t, 10)
        one == Mod(t, 10)
    IN  IF Truthy(one)
        THEN Interpolate(Index(tens, ten)) \o Sep \o Interpolate(Index(ones, one))
        ELSE Index(tens, ten)

\* the element pushed for a tens/ones value t >= 20
TensOnes(t) ==
    LET ten == FloorDiv(t, 10)
        one == Mod(t, 10)
    IN  IF Truthy(one)
        THEN Interpolate(Index(ones, one)) \o Sep \o Interpolate(Index(tens, ten))
        ELSE Index(tens, ten)

\* underThousandParts with the tens/ones part pushed before the hundreds
underThousandParts_TensFirst(x) ==
    LET h == FloorDiv(x, 100)
        t == Mod(x, 100)
        hPart == IF Truthy(h) THEN <<Index(hundreds, h)>> ELSE << >>
        tPart == IF Truthy(t)
                 THEN IF LT(t, 20) THEN <<Index(ones, t)>> ELSE <<TensOnes(t)>>
                 ELSE << >>
    IN  tPart \o hPart

\* underThousandParts with hundreds[h] pushed also when h is 0
underThousandParts_AlwaysHundreds(x) ==
    LET h == FloorDiv(x, 100)
        t == Mod(x, 100)
        hPart == <<Index(hundreds, h)>>
        tPart == IF Truthy(t)
                 THEN IF LT(t, 20) THEN <<Index(ones, t)>> ELSE <<TensOnes(t)>>
                 ELSE << >>
    IN  hPart \o tPart

\* the array parts of underThousand at its return
underThousandParts(x) ==
    LET h == FloorDiv(x, 100)
        t == Mod(x, 100)
        hPart == IF Truthy(h) THEN <<Index(hundreds, h)>> ELSE << >>
        tPart == IF Truthy(t)
                 THEN IF LT(t, 20) THEN <<Index(ones, t)>> ELSE <<TensOnes(t)>>
                 ELSE << >>
    IN  hPart \o tPart

underThousand(x) == Join(underThousandParts(x), Sep)

----------------------------------------------------------------------------
(* numberToArabicWords *)

\* the guard of the first return with NaN alone rejected
RejectsInput_NaNOnly(x) == x.t = "nan"

\* the guard of the first return: !isFinite(n)
RejectsInput(x) == ~isFinite(x)

\* no const q, qWords or scaleWord is in scope (outside the if of the loop)
NoTier == [q |-> NaN, qWords |-> << >>, scaleWord |-> << >>]

\* ScaleNoun with the plural kept for every quotient from 3 on
ScaleNoun_PluralFrom3(s, k) ==
    IF EQ(k, 2) THEN s.dual
    ELSE IF GE(k, 3) THEN s.plural
    ELSE s.sing

\* the scale noun chosen for the quotient k
ScaleNoun(s, k) ==
    IF EQ(k, 2) THEN s.dual
    ELSE IF GE(k, 3) /\ LE(k, 10) THEN s.plural
    ELSE s.sing

\* Segment with the number word kept before the singular noun
Segment_CountedOne(k, kw, sw) ==
    IF EQ(k, 2) THEN sw
    ELSE Interpolate(kw) \o <<SP>> \o Interpolate(sw)

\* Segment with the noun alone for every quotient
Segment_NounOnly(k, kw, sw) == sw

\* the segment pushed for the quotient k, its words kw and the noun sw
Segment(k, kw, sw) ==
    IF EQ(k, 1) THEN sw
    ELSE IF EQ(k, 2) THEN sw
    ELSE Interpolate(kw) \o <<SP>> \o Interpolate(sw)

\* ScaleIteration with the quotient reduced to its last three digits
ScaleIteration_GroupQuotient(st, s) ==
    IF GE(st.remainder, s.value)
    THEN LET k  == Mod(FloorDiv(st.remainder, s.value), 1000)
             kw == underThousand(k)
             sw == ScaleNoun(s, k)
         IN  [remainder |-> Mod(st.remainder, s.value),
              words     |-> Append(st.words, Segment(k, kw, sw)),
              q |-> k, qWords |-> kw, scaleWord |-> sw]
    ELSE [remainder |-> st.remainder, words |-> st.words,
          q |-> NoTier.q, qWords |-> NoTier.qWords, scaleWord |-> NoTier.scaleWord]

\* ScaleIteration with the tier entered for remainder > value only
ScaleIteration_StrictGuard(st, s) ==
    IF GE(st.remainder, s.value)
       /\ st.remainder # (IF s.value = Billion THEN Num(FALSE, 1, 0, 0)
                          ELSE IntNum(s.value))
    THEN LET k  == FloorDiv(st.remainder, s.value)
             kw == underThousand(k)
             sw == ScaleNoun(s, k)
         IN  [remainder |-> Mod(st.remainder, s.value),
              words     |-> Append(st.words, Segment(k, kw, sw)),
              q |-> k, qWords |-> kw, scaleWord |-> sw]
    ELSE [remainder |-> st.remainder, words |-> st.words,
          q |-> NoTier.q, qWords |-> NoTier.qWords, scaleWord |-> NoTier.scaleWord]

\* ScaleIteration with the remainder left as it was
ScaleIteration_KeepRemainder(st, s) ==
    IF GE(st.remainder, s.value)
    THEN LET k  == FloorDiv(st.remainder, s.value)
             kw == underThousand(k)
             sw == ScaleNoun(s, k)
         IN  [remainder |-> st.remainder,
              words     |-> Append(st.words, Segment(k, kw, sw)),
              q |-> k, qWords |-> kw, scaleWord |-> sw]
    ELSE [remainder |-> st.remainder, words |-> st.words,
          q |-> NoTier.q, qWords |-> NoTier.qWords, scaleWord |-> NoTier.scaleWord]

\* one iteration of the loop over scales, on [remainder, words]
ScaleIteration(st, s) ==
    IF GE(st.remainder, s.value)
    THEN LET k  == FloorDiv(st.remainder, s.value)
             kw == underThousand(k)
             sw == ScaleNoun(s, k)
         IN  [remainder |-> Mod(st.remainder, s.value),
              words     |-> Append(st.words, Segment(k, kw, sw)),
              q |-> k, qWords |-> kw, scaleWord |-> sw]
    ELSE [remainder |-> st.remainder, words |-> st.words,
          q |-> NoTier.q, qWords |-> NoTier.qWords, scaleWord |-> NoTier.scaleWord]

\* FinalWords with the word for zero pushed for a remainder of 0
FinalWords_ZeroRemainder(st) ==
    IF Truthy(st.remainder)
    THEN Append(st.words, underThousand(st.remainder))
    ELSE Append(st.words, Sifr)

\* words after the statement that follows the loop
FinalWords(st) ==
    IF Truthy(st.remainder)
    THEN Append(st.words, underThousand(st.remainder))
    ELSE st.words

RECURSIVE ScaleLoop(_, _)
\* the loop over scales from entry k on
ScaleLoop(st, k) ==
    IF k > Len(scales) THEN st
    ELSE ScaleLoop(ScaleIteration(st, scales[k]), k + 1)

\* the function as a whole
numberToArabicWords(v) ==
    LET x == Number(v)
    IN  IF RejectsInput(x) THEN << >>
        ELSE IF IsZero(x) THEN Sifr
        ELSE Join(FinalWords(ScaleLoop([remainder |-> x, words |-> << >>], 1)), Sep)

----------------------------------------------------------------------------
(* formatArabicCurrencyWords *)

\* Math.abs left out: the sign is kept
Abs_Identity(x) == x

\* Math.abs
Abs(x) == [x EXCEPT !.neg = FALSE]

\* Math.floor
Floor(x) ==
    IF ~isFinite(x) THEN x
    ELSE IF x.neg /\ x.th # 0
         THEN IF x.lo + 1 = Billion THEN Num(TRUE, x.hi + 1, 0, 0)
              ELSE Num(TRUE, x.hi, x.lo + 1, 0)
    ELSE Num(x.neg, x.hi, x.lo, 0)

\* x - y for x >= y >= 0; Infinity - Infinity and NaN - NaN are NaN
Sub(x, y) ==
    IF ~isFinite(x) \/ ~isFinite(y) THEN NaN
    ELSE LET bth == IF x.th < y.th THEN 1 ELSE 0
             dth == x.th - y.th + 1000 * bth
             blo == IF x.lo < y.lo + bth THEN 1 ELSE 0
             dlo == (x.lo - y.lo - bth) + Billion * blo
         IN  Num(FALSE, x.hi - y.hi - blo, dlo, dth)

\* x * 100 for x >= 0
Times100(x) ==
    IF ~isFinite(x) THEN x
    ELSE LET a == x.lo \div 10000000
             b == x.lo % 10000000
         IN  Num(x.neg, x.hi * 100 + a, b * 100 + (x.th \div 10), (x.th % 10) * 100)

\* RoundOutcomes with the decimals cut off (Math.floor for Math.round)
RoundOutcomes_Truncate(x) ==
    IF ~isFinite(x) THEN {NaN} ELSE {Num(x.neg, x.hi, x.lo, 0)}

\* RoundOutcomes with the result kept below 100
RoundOutcomes_Capped(x) ==
    IF ~isFinite(x) THEN {NaN}
    ELSE IF x.lo >= 99 THEN {Num(x.neg, x.hi, 99, 0)}
    ELSE IF x.th >= 500 THEN {Num(x.neg, x.hi, x.lo + 1, 0)}
    ELSE {Num(x.neg, x.hi, x.lo, 0)}

\* The values Math.round can return for the product x >= 0.  The model
\* computes with exact decimals of three places; the program computes with
\* binary doubles.  The two agree except where the exact product lies half
\* way between two integers: there the double lies just below or just above
\* the half, by the amount ((1.005 - 1) * 100 is 0.49999999999998934 and
\* rounds to 0, (1.995 - 1) * 100 is 99.50000000000001 and rounds to 100),
\* so both neighbours are outcomes.
RoundOutcomes(x) ==
    IF ~isFinite(x) THEN {NaN}
    ELSE LET down == Num(x.neg, x.hi, x.lo, 0)
             up   == Num(x.neg, x.hi, x.lo + 1, 0)
         IN  IF x.th = 500 THEN {down, up}
             ELSE IF x.th > 500 THEN {up}
             ELSE {down}

\* Default with the caller's value ignored
Default_Always(v, d) == d

\* a parameter with a default value
Default(v, d) == IF v = Undefined THEN d ELSE v

Junayh == <<"junayh">>
Qirsh  == <<"qirsh">>

\* formatReturn with the sub unit clause emitted for every fraction
formatReturn_AlwaysSub(int, frac, main, sub) ==
    LET integerWords  == numberToArabicWords(int)
        fractionWords == numberToArabicWords(frac)
        mainUnit == Default(main, Junayh)
        subUnit  == Default(sub, Qirsh)
    IN  Interpolate(integerWords) \o <<SP>> \o Interpolate(mainUnit) \o Sep
        \o Interpolate(fractionWords) \o <<SP>> \o Interpolate(subUnit)

\* the value returned, from the constants integer and fraction
formatReturn(int, frac, main, sub) ==
    LET integerWords  == numberToArabicWords(int)
        fractionWords == IF Truthy(frac) THEN numberToArabicWords(frac) ELSE << >>
        mainUnit == Default(main, Junayh)
        subUnit  == Default(sub, Qirsh)
    IN  IF Truthy(frac)
        THEN Interpolate(integerWords) \o <<SP>> \o Interpolate(mainUnit) \o Sep
             \o Interpolate(fractionWords) \o <<SP>> \o Interpolate(subUnit)
        ELSE Interpolate(integerWords) \o <<SP>> \o Interpolate(mainUnit)

\* the function as a whole: the values a call can return (one value, but
\* for a product half way between two integers, see RoundOutcomes)
formatArabicCurrencyWords(a, main, sub) ==
    LET int == Floor(Abs(a))
    IN  { formatReturn(int, frac, main, sub) :
            frac \in RoundOutcomes(Times100(Sub(Abs(a), int))) }

----------------------------------------------------------------------------
(* toArabicNumerals, lines 126-135.  The Eastern Arabic digits are the      *)
(* tokens "ar0" .. "ar9".                                                   *)

arabicNumerals == <<"ar0", "ar1", "ar2", "ar3", "ar4", "ar5", "ar6", "ar7",
                    "ar8", "ar9">>
westernNumerals == <<"0", "1", "2", "3", "4", "5", "6", "7", "8", "9">>

RECURSIVE NatToString(_)
\* the decimal digits of a natural number
NatToString(k) ==
    IF k < 10 THEN <<westernNumerals[k + 1]>>
    ELSE NatToString(k \div 10) \o <<westernNumerals[(k % 10) + 1]>>

\* str.toString(): a string is itself, a natural number below 10^9 is its
\* decimal digits
toString(v) == IF v.t = "str" THEN v.s ELSE NatToString(v.lo)

\* replace with the first occurrence only replaced
replace_FirstOnly(s, from, to) ==
    [k \in 1..Len(s) |->
        IF s[k] = from /\ \A j \in 1..(k - 1) : s[j] # from THEN to ELSE s[k]]

\* result.replace(new RegExp(from, 'g'), to) for a pattern of one digit
replace(s, from, to) ==
    [k \in 1..Len(s) |-> IF s[k] = from THEN to ELSE s[k]]

RECURSIVE ReplaceLoop(_, _)
\* the loop of lines 131-133 from index i on (i counts from 1)
ReplaceLoop(result, i) ==
    IF i > Len(westernNumerals) THEN result
    ELSE ReplaceLoop(replace(result, westernNumerals[i], arabicNumerals[i]),
                     i + 1)

toArabicNumerals(v) == ReplaceLoop(toString(v), 1)

----------------------------------------------------------------------------
(* The Dashboard component: the form, the rows of the imported sheet, and   *)
(* the memo amountWords                                                     *)

isNaN(x) == x.t = "nan"

\* a value that is false in a condition
Falsy(v) ==
    \/ v.t \in {"undefined", "null"}
    \/ v.t = "str" /\ v.s = << >>
    \/ IsNumber(v) /\ ~Truthy(v)
    \/ v.t = "bool" /\ ~v.v

\* useState of line 224; a key the object does not have reads as undefined
initialForm ==
    [payee |-> Str(<<" ">>), amount |-> Str(<<" ">>), date |-> Str(<<" ">>),
     memo |-> Str(<<" ">>), signature |-> Str(<<" ">>), bank |-> undefined]

\* toLocaleDateString of today
Today == Str(<<"today">>)

\* the effect of lines 227-231: a date that is false becomes today's date
DateEffect(f) == IF Falsy(f.date) THEN [f EXCEPT !.date = Today] ELSE f

EgyptianPound == <<"junayh", SP, "masri">>

\* the memo of lines 263-267, the set of its outcomes for a value of
\* form.amount
amountWordsMemo(a) ==
    LET k == Number(a)
    IN  IF isNaN(k) THEN { << >> }
        ELSE formatArabicCurrencyWords(k, EgyptianPound, Qirsh)

\* row[k] of an array of cells
Cell(row, k) == IF k + 1 <= Len(row) THEN row[k + 1] ELSE undefined

\* lines 404-409: one object per row after the header row
SheetValues(json) ==
    LET body == IF Len(json) = 0 THEN << >> ELSE Tail(json)
    IN  [k \in 1..Len(body) |->
            [name |-> Cell(body[k], 0), amount |-> Cell(body[k], 1),
             date |-> Cell(body[k], 2), bank |-> Cell(body[k], 3)]]

\* the object passed to setForm at lines 419-424, 437-442 and 456-461
FormOfRow(row) ==
    [payee |-> row.name, amount |-> row.amount, date |-> row.date,
     bank |-> row.bank, memo |-> undefined, signature |-> undefined]

----------------------------------------------------------------------------
(* Templates: the list kept by the Dashboard component.  A number of a      *)
(* field position is an integer; an id is a tuple of its parts, as          *)
(* <<"tpl", 3>> for `tpl_${3}`; a key an object does not have holds         *)
(* undefined.                                                               *)

Bool(b) == [t |-> "bool", v |-> b]

\* a || b
Or(a, b) == IF Falsy(a) THEN b ELSE a

\* a < b for two numbers that are not NaN
Less(a, b) ==
    IF a.t = "inf" THEN a.neg /\ ~(b.t = "inf" /\ b.neg)
    ELSE IF b.t = "inf" THEN ~b.neg
    ELSE LET MagLess(x, y) ==
                 \/ x.hi < y.hi
                 \/ x.hi = y.hi /\ x.lo < y.lo
                 \/ x.hi = y.hi /\ x.lo = y.lo /\ x.th < y.th
         IN  IF a.neg # b.neg THEN a.neg
             ELSE IF a.neg THEN MagLess(b, a) ELSE MagLess(a, b)

\* Math.min and Math.max of two numbers
MathMin(a, b) == IF isNaN(a) \/ isNaN(b) THEN NaN ELSE IF Less(a, b) THEN a ELSE b
MathMax(a, b) == IF isNaN(a) \/ isNaN(b) THEN NaN ELSE IF Less(a, b) THEN b ELSE a

\* Math.min(98, Math.max(0, v)) for a position v
ClampPosition(v) == IF v < 0 THEN 0 ELSE IF v > 98 THEN 98 ELSE v

\* the first two of DEFAULT_FIELDS, lines 139-140
DEFAULT_FIELDS == <<
    [id |-> "date",  x |-> 70, y |-> 8,  fontSize |-> 14],
    [id |-> "payee", x |-> 15, y |-> 30, fontSize |-> 18] >>

\* CHEQUE_DIMENSIONS.egypt: 177.8 by 88.9
EgyptWidth  == Num(FALSE, 0, 177, 800)
EgyptHeight == Num(FALSE, 0, 88, 900)

DefaultId == <<"DEFAULT">>

SAMPLE_TEMPLATES == <<
    [id |-> DefaultId, name |-> <<"DEFAULT">>,
     widthMM |-> EgyptWidth, heightMM |-> EgyptHeight,
     fields |-> DEFAULT_FIELDS, isDefault |-> Bool(TRUE)] >>

\* templates.filter(keep), for the set keep of the indices kept
RECURSIVE FilterFrom(_, _, _)
FilterFrom(list, keep, i) ==
    IF i > Len(list) THEN << >>
    ELSE (IF i \in keep THEN <<list[i]>> ELSE << >>)
         \o FilterFrom(list, keep, i + 1)

\* the memo currentTemplate of line 222
currentTemplateOf(list, selected) ==
    IF \E i \in 1..Len(list) : list[i].id = selected
    THEN list[CHOOSE i \in 1..Len(list) :
                 /\ list[i].id = selected
                 /\ \A j \in 1..(i - 1) : list[j].id # selected]
    ELSE list[1]

\* updateTemplate with the updater applied to every template
updateTemplate_All(list, current, updated) == updated

\* updateTemplate, lines 294-296: updated[i] is updater(list[i])
updateTemplate(list, current, updated) ==
    [i \in 1..Len(list) |->
        IF list[i].id = current.id THEN updated[i] ELSE list[i]]

minWidth == 100
maxWidth == 250
minHeight == 50
maxHeight == 150

\* the value that validateAndUpdateDimension stores, with the minimum left out
validDimension_NoMinimum(field, value) ==
    LET numValue == Number(Or(value, IntNum(0)))
    IN  IF field = "widthMM"
        THEN MathMin(IntNum(maxWidth), numValue)
        ELSE MathMin(IntNum(maxHeight), numValue)

\* the value that validateAndUpdateDimension stores, lines 299-309
validDimension(field, value) ==
    LET numValue == Number(Or(value, IntNum(0)))
    IN  IF field = "widthMM"
        THEN MathMax(IntNum(minWidth), MathMin(IntNum(maxWidth), numValue))
        ELSE MathMax(IntNum(minHeight), MathMin(IntNum(maxHeight), numValue))

\* the fields after a move of the field fld by (dx, dy), lines 585-593
movedFields(fields, fld, dx, dy) ==
    LET newX == ClampPosition(fld.x + dx)
        newY == ClampPosition(fld.y + dy)
    IN  [k \in 1..Len(fields) |->
            IF fields[k].id = fld.id
            THEN [fields[k] EXCEPT !.x = newX, !.y = newY]
            ELSE fields[k]]

\* the fields after updateField(id, {fontSize: size}), lines 604-609
patchedFields(fields, id, size) ==
    [k \in 1..Len(fields) |->
        IF fields[k].id = id THEN [fields[k] EXCEPT !.fontSize = size]
        ELSE fields[k]]

\* removeTemplate with no check of isDefault
IsProtected_Never(t) == FALSE

\* the check of lines 467-470: currentTemplate.isDefault
IsProtected(t) == ~Falsy(t.isDefault)

\* the template made by addTemplate at the time now, lines 332-343
NewTemplate(time) ==
    [id |-> <<"tpl", time>>, name |-> <<"new">>,
     widthMM |-> EgyptWidth, heightMM |-> EgyptHeight,
     fields |-> DEFAULT_FIELDS, isDefault |-> undefined]

\* an imported template, lines 521-526 and 532-537
Imported(template, id) ==
    [template EXCEPT !.id = id,
                     !.name = Interpolate(template.name) \o <<" ", "(imported)">>,
                     !.isDefault = Bool(FALSE)]

----------------------------------------------------------------------------
(* useLocalStorage, lines 170-208.  A stored text is kept as what           *)
(* JSON.parse makes of it: a value, or an error.                            *)

\* LSK, lines 24-28: the keys of the templates and of the selection
Keys == {"templates", "lastTemplateId"}

Arr(a) == [t |-> "array", a |-> a]
Obj(o) == [t |-> "object", o |-> o]
IdString(id) == [t |-> "string", s |-> id]

\* a text that parses to the value v; the empty text; a text that does not
\* parse
Text(v) == [t |-> "text", parsed |-> v]
EmptyText == [t |-> "text", parsed |-> [t |-> "empty"]]
Garbage == [t |-> "text", parsed |-> [t |-> "error"]]

\* JSON.stringify of the list of templates and of an id
stringifyTemplates(list) == Text(Arr([i \in 1..Len(list) |-> Obj(list[i])]))
stringifyId(id) == Text(IdString(id))

\* if (raw) is false: nothing stored, or the empty text
NothingStored(raw) == raw = null \/ raw = EmptyText

\* JSON.parse(raw) throws
ParseThrows(raw) == raw.parsed.t \in {"empty", "error"}

\* the merge of lines 182-184 with every stored template kept
mergedTemplates_KeepStored(initial, stored) ==
    FilterFrom(initial, {i \in 1..Len(initial) : ~Falsy(initial[i].isDefault)}, 1)
    \o [i \in 1..Len(stored.a) |-> stored.a[i].o]

\* the merge of lines 182-184
mergedTemplates(initial, stored) ==
    LET user == FilterFrom(stored.a,
                    {i \in 1..Len(stored.a) : Falsy(stored.a[i].o.isDefault)}, 1)
    IN  FilterFrom(initial, {i \in 1..Len(initial) : ~Falsy(initial[i].isDefault)}, 1)
        \o [i \in 1..Len(user) |-> user[i].o]

\* stored.filter(..) throws: stored is no array, or an element is null
MergeThrows(stored) ==
    \/ stored.t # "array"
    \/ \E i \in 1..Len(stored.a) : stored.a[i].t # "object"

\* the state set by the effect of lines 175-196
loadedState(key, initial, raw) ==
    IF NothingStored(raw) THEN initial
    ELSE IF ParseThrows(raw) THEN initial
    ELSE IF key = "templates"
         THEN IF MergeThrows(raw.parsed) THEN initial
              ELSE mergedTemplates(initial, raw.parsed)
         ELSE raw.parsed.s

\* the check of line 200 with the saving effect writing in every render
MaySave_Always(initialized) == TRUE

\* the check of line 200: if (isInitialized)
MaySave(initialized) == initialized

\* what the effect of lines 199-205 has stored for each key
savedTexts(list, selected) ==
    [k \in Keys |-> IF k = "templates" THEN stringifyTemplates(list)
                    ELSE stringifyId(selected)]

----------------------------------------------------------------------------
(* The inputs *)

MaxSmallGroup == 3
MaxSmallBillions == 3
MaxStrLen == 2
MaxSmallWhole == 2
MaxNumeralLen == 3
MaxRows == 2

\* values of a three-digit group
GroupVals == (0..MaxSmallGroup) \cup {10, 11, 21, 999}

\* values of floor(n / 10^9)
BillionVals == (0..MaxSmallBillions) \cup {11, 999, 1000, 1005}

\* the non-negative integers passed to numberToArabicWords
IntegerArgs == { Num(FALSE, b, m * Million + k * Thousand + u, 0) :
                   b \in BillionVals, m \in GroupVals, k \in GroupVals, u \in GroupVals }

\* negative numbers, numbers with decimals, and -0
Signed == { Num(s, b, w, th) : s \in BOOLEAN, b \in {0, 2},
              w \in {0, 1, 21, 100, 1000, 1021, 2000000}, th \in {0, 500} }

Chars == {" ", "7", "a"}
Strings == UNION { [1..len -> Chars] : len \in 0..MaxStrLen }

\* the values passed to numberToArabicWords
Values == IntegerArgs \cup Signed \cup {NaN, Infinity(FALSE), Infinity(TRUE)}
          \cup {undefined, null} \cup { Str(c) : c \in Strings }

\* the integers passed to underThousand directly
UnderThousandArgs == { IntNum(k) : k \in 0..999 }

\* the amounts passed to formatArabicCurrencyWords
Amounts == { Num(FALSE, 0, 1, 10 * c + d) : c \in 0..99, d \in {0, 4, 5, 6} }
           \cup
           { Num(s, b, w, th) : s \in BOOLEAN, b \in {0, 1},
               w \in (0..MaxSmallWhole) \cup {11, 1234},
               th \in {0, 10, 560, 994, 995, 999} }
           \cup {NaN, Infinity(FALSE), Infinity(TRUE)}

\* the unit nouns passed; Undefined is an omitted argument
MainUnits == {Undefined, <<"junayh", SP, "masri">>}
SubUnits  == {Undefined, <<"qirsh">>, <<"millim">>}

\* the values passed to toArabicNumerals
NumeralChars == {"0", "1", "9", ".", "ar1"}
NumeralArgs ==
    { Str(c) : c \in UNION { [1..len -> NumeralChars] : len \in 0..MaxNumeralLen } }
    \cup { IntNum(k) : k \in {0, 19, 101} }

\* what the amount input (type number) gives as its value
AmountEntries == { Str(<< >>), Str(<<"7">>), Str(<<"-", "7">>) }
\* what a text input gives as its value
TextEntries == { Str(<< >>), Str(<<"a">>) }

\* the rows of a sheet: a cell is a number or a text, and a row ends at its
\* last cell that is not empty
AmountCells == { IntNum(21), Str(<<"Infinity">>) }
SheetRows ==
    { <<Str(<<"a">>)>> }
    \cup { <<Str(<<"a">>), a, Str(<<"a">>), Str(<<"a">>)>> : a \in AmountCells }
HeaderRow == <<Str(<<"a">>), Str(<<"a">>), Str(<<"a">>), Str(<<"a">>)>>
Sheets ==
    { << >> }
    \cup { <<HeaderRow>> \o rows :
             rows \in UNION { [1..len -> SheetRows] : len \in 0..MaxRows } }

\* the number of events of the templates
MaxNow == 3

\* what the inputs of the width and the height (type number) give
DimensionEntries ==
    { Str(<< >>), Str(<<"7">>), Str(<<"1", "7", "7">>), Str(<<"7", "7", "7">>) }
\* the moves of the mouse, in hundredths of the width and the height
Moves == { <<200, -200>>, <<-200, 5>> }
FontSizes == {8, 72}
\* the suffixes that Math.random gives to an id
RandomSuffixes == {1, 2}

\* the texts of the files given to importTemplate: exported templates, alone
\* or in an array, an empty array, null, and a text that is no JSON
ExportedTemplates == { SAMPLE_TEMPLATES[1], NewTemplate(0) }
ImportFiles ==
    { Garbage, Text(null), Text(Arr(<< >>)) }
    \cup { Text(Obj(e)) : e \in ExportedTemplates }
    \cup { Text(Arr(<<Obj(SAMPLE_TEMPLATES[1])>>)),
           Text(Arr(<<Obj(NewTemplate(0)), Obj(SAMPLE_TEMPLATES[1])>>)) }

\* the default template as a user resized it, and as it was stored then
ResizedDefault == [SAMPLE_TEMPLATES[1] EXCEPT !.widthMM = IntNum(minWidth)]

\* what localStorage holds for the key of the templates when the page
\* opens: nothing, the empty text, a text that is no JSON, null, an object,
\* an array holding null, and lists of templates
StoredTemplateTexts ==
    { null, EmptyText, Garbage, Text(null), Text(Obj(NewTemplate(0))),
      Text(Arr(<<null>>)), Text(Arr(<< >>)),
      stringifyTemplates(SAMPLE_TEMPLATES),
      stringifyTemplates(<<ResizedDefault, NewTemplate(0)>>),
      stringifyTemplates(<<NewTemplate(0), ResizedDefault,
                           Imported(SAMPLE_TEMPLATES[1], <<"imported", 0>>)>>) }

\* what localStorage holds for the key of the selection when the page opens
StoredIdTexts ==
    { null, Garbage, stringifyId(DefaultId), stringifyId(<<"tpl", 0>>) }

\* the lists and the selections that the events of the page set
StateLists ==
    { SAMPLE_TEMPLATES, <<ResizedDefault>>,
      SAMPLE_TEMPLATES \o <<NewTemplate(1)>> }
StateIds == { DefaultId, <<"tpl", 1>> }

----------------------------------------------------------------------------
(* The state machine: one call of one function per behaviour *)

\* no call of a converter function is in progress
Idle == /\ arg = NaN /\ n = NaN /\ idx = 0 /\ remainder = NaN /\ words = << >>
        /\ q = NoTier.q /\ qWords = NoTier.qWords /\ scaleWord = NoTier.scaleWord
        /\ num = NaN /\ amount = NaN
        /\ currencyMain = Undefined /\ currencySub = Undefined
        /\ integer = NaN /\ fraction = NaN
        /\ str = undefined

\* the component as mounted, lines 224 and 255-256
Mounted ==
    /\ form = initialForm
    /\ useExcelRows = << >>
    /\ useCurruntRowIndex = null
    /\ amountWords \in amountWordsMemo(form.amount)
    /\ templates = SAMPLE_TEMPLATES
    /\ selectedTemplateId = SAMPLE_TEMPLATES[1].id
    /\ editMode = FALSE
    /\ now = 0
    /\ isInitialized = [k \in Keys |-> TRUE]
    /\ localStorage = savedTexts(templates, selectedTemplateId)
    /\ pending = [k \in Keys |-> << >>]
    /\ effects = << >>

InitWords ==
    /\ fn = "numberToArabicWords" /\ pc = "call" /\ ret = Undefined
    /\ arg \in Values /\ n = arg
    /\ idx = 0 /\ remainder = NaN /\ words = << >>
    /\ q = NoTier.q /\ qWords = NoTier.qWords /\ scaleWord = NoTier.scaleWord
    /\ num = NaN /\ amount = NaN
    /\ currencyMain = Undefined /\ currencySub = Undefined
    /\ integer = NaN /\ fraction = NaN
    /\ str = undefined /\ Mounted

InitUnderThousand ==
    /\ fn = "underThousand" /\ pc = "call" /\ ret = Undefined
    /\ num \in UnderThousandArgs
    /\ arg = NaN /\ n = NaN
    /\ idx = 0 /\ remainder = NaN /\ words = << >>
    /\ q = NoTier.q /\ qWords = NoTier.qWords /\ scaleWord = NoTier.scaleWord
    /\ amount = NaN
    /\ currencyMain = Undefined /\ currencySub = Undefined
    /\ integer = NaN /\ fraction = NaN
    /\ str = undefined /\ Mounted

InitFormat ==
    /\ fn = "formatArabicCurrencyWords" /\ pc = "call" /\ ret = Undefined
    /\ amount \in Amounts
    /\ currencyMain \in MainUnits /\ currencySub \in SubUnits
    /\ arg = NaN /\ n = NaN
    /\ idx = 0 /\ remainder = NaN /\ words = << >>
    /\ q = NoTier.q /\ qWords = NoTier.qWords /\ scaleWord = NoTier.scaleWord
    /\ num = NaN
    /\ integer = NaN /\ fraction = NaN
    /\ str = undefined /\ Mounted

InitNumerals ==
    /\ fn = "toArabicNumerals" /\ pc = "call" /\ ret = Undefined
    /\ str \in NumeralArgs
    /\ arg = NaN /\ n = NaN
    /\ idx = 0 /\ remainder = NaN /\ words = << >>
    /\ q = NoTier.q /\ qWords = NoTier.qWords /\ scaleWord = NoTier.scaleWord
    /\ num = NaN /\ amount = NaN
    /\ currencyMain = Undefined /\ currencySub = Undefined
    /\ integer = NaN /\ fraction = NaN
    /\ Mounted

Init == InitWords \/ InitUnderThousand \/ InitFormat \/ InitNumerals

\* numberToArabicWords, lines 33-35 and 85-86: the conversion of the
\* argument, the two early returns, and the initialisation of the loop
Enter ==
    /\ fn = "numberToArabicWords" /\ pc = "call"
    /\ n' = Number(n)
    /\ IF RejectsInput(n')
       THEN /\ ret' = << >> /\ pc' = "done"
            /\ UNCHANGED <<idx, remainder, words>>
       ELSE IF IsZero(n')
       THEN /\ ret' = Sifr /\ pc' = "done"
            /\ UNCHANGED <<idx, remainder, words>>
       ELSE /\ remainder' = n' /\ words' = << >> /\ idx' = 1
            /\ pc' = "loop" /\ UNCHANGED ret
    /\ UNCHANGED <<fn, arg, q, qWords, scaleWord, num, amount, currencyMain,
                   currencySub, integer, fraction, str, uiVars, templateVars, storageVars>>

\* numberToArabicWords, lines 87-106: one iteration of the loop over scales
ScaleStep ==
    /\ fn = "numberToArabicWords" /\ pc = "loop" /\ idx <= Len(scales)
    /\ LET st == ScaleIteration([remainder |-> remainder, words |-> words],
                                scales[idx])
       IN  /\ remainder' = st.remainder /\ words' = st.words
           /\ q' = st.q /\ qWords' = st.qWords /\ scaleWord' = st.scaleWord
    /\ idx' = idx + 1
    /\ UNCHANGED <<fn, pc, arg, n, num, amount, currencyMain, currencySub,
                   integer, fraction, str, ret, uiVars, templateVars, storageVars>>

\* numberToArabicWords, lines 107-108: the remainder and the join
Finish ==
    /\ fn = "numberToArabicWords" /\ pc = "loop" /\ idx > Len(scales)
    /\ words' = FinalWords([remainder |-> remainder, words |-> words])
    /\ ret' = Join(words', Sep)
    /\ q' = NoTier.q /\ qWords' = NoTier.qWords /\ scaleWord' = NoTier.scaleWord
    /\ pc' = "done"
    /\ UNCHANGED <<fn, arg, n, idx, remainder, num, amount, currencyMain,
                   currencySub, integer, fraction, str, uiVars, templateVars, storageVars>>

\* a call of underThousand, lines 61-77
CallUnderThousand ==
    /\ fn = "underThousand" /\ pc = "call"
    /\ ret' = underThousand(num)
    /\ pc' = "done"
    /\ UNCHANGED <<fn, arg, n, idx, remainder, words, q, qWords, scaleWord, num,
                   amount, currencyMain, currencySub, integer, fraction, str,
                   uiVars, templateVars, storageVars>>

\* a call of formatArabicCurrencyWords, lines 111-123
CallFormat ==
    /\ fn = "formatArabicCurrencyWords" /\ pc = "call"
    /\ integer' = Floor(Abs(amount))
    /\ fraction' \in RoundOutcomes(Times100(Sub(Abs(amount), integer')))
    /\ ret' = formatReturn(integer', fraction', currencyMain, currencySub)
    /\ pc' = "done"
    /\ UNCHANGED <<fn, arg, n, idx, remainder, words, q, qWords, scaleWord, num,
                   amount, currencyMain, currencySub, str, uiVars, templateVars, storageVars>>

\* a call of toArabicNumerals, lines 126-135
CallToArabicNumerals ==
    /\ fn = "toArabicNumerals" /\ pc = "call"
    /\ ret' = toArabicNumerals(str)
    /\ pc' = "done"
    /\ UNCHANGED <<fn, arg, n, idx, remainder, words, q, qWords, scaleWord, num,
                   amount, currencyMain, currencySub, integer, fraction, str,
                   uiVars, templateVars, storageVars>>

Next == \/ Enter \/ ScaleStep \/ Finish \/ CallUnderThousand \/ CallFormat
        \/ CallToArabicNumerals

Spec == Init /\ [][Next]_vars

----------------------------------------------------------------------------
(* The state machine of the Dashboard component: the events of the form and *)
(* of the sheet import.  After each event the component renders again, so   *)
(* the date effect and the memo are part of the event.                      *)

converterVars == <<fn, pc, arg, n, idx, remainder, words, q, qWords, scaleWord,
                   num, amount, currencyMain, currencySub, integer, fraction,
                   str, ret>>

InitUI ==
    /\ fn = "Dashboard" /\ pc = "render" /\ ret = Undefined
    /\ Idle /\ Mounted

\* setForm(f) followed by the render
SetForm(f) ==
    /\ form' = DateEffect(f)
    /\ amountWords' \in amountWordsMemo(form'.amount)

\* onChange of the amount input, line 869
ChangeAmount ==
    /\ \E v \in AmountEntries : SetForm([form EXCEPT !.amount = v])
    /\ UNCHANGED <<useExcelRows, useCurruntRowIndex, converterVars, templateVars,
                   storageVars>>

\* onChange of the payee, date, memo and signature inputs, lines 864-881
ChangeText ==
    /\ \E f \in {"payee", "date", "memo", "signature"}, v \in TextEntries :
           SetForm([form EXCEPT ![f] = v])
    /\ UNCHANGED <<useExcelRows, useCurruntRowIndex, converterVars, templateVars,
                   storageVars>>

\* handleExcelImport, lines 388-426, with a file chosen
handleExcelImport ==
    /\ \E json \in Sheets :
         LET values == SheetValues(json)
         IN  /\ useExcelRows' = values
             /\ useCurruntRowIndex' = IntNum(0)
             /\ IF Len(values) > 0
                THEN SetForm(FormOfRow(values[1]))
                ELSE UNCHANGED <<form, amountWords>>
    /\ UNCHANGED <<converterVars, templateVars, storageVars>>

\* handleNext, lines 428-445; null counts as 0 in the comparison and the sum
handleNext ==
    /\ Number(useCurruntRowIndex).lo < Len(useExcelRows) - 1
    /\ LET newIndex == Number(useCurruntRowIndex).lo + 1
       IN  /\ useCurruntRowIndex' = IntNum(newIndex)
           /\ SetForm(FormOfRow(useExcelRows[newIndex + 1]))
    /\ UNCHANGED <<useExcelRows, converterVars, templateVars,
                   storageVars>>

\* handlePrev, lines 447-463
handlePrev ==
    /\ Number(useCurruntRowIndex).lo > 0
    /\ LET newIndex == Number(useCurruntRowIndex).lo - 1
       IN  /\ useCurruntRowIndex' = IntNum(newIndex)
           /\ SetForm(FormOfRow(useExcelRows[newIndex + 1]))
    /\ UNCHANGED <<useExcelRows, converterVars, templateVars,
                   storageVars>>

NextUI == \/ ChangeAmount \/ ChangeText \/ handleExcelImport
          \/ handleNext \/ handlePrev

SpecUI == InitUI /\ [][NextUI]_vars

----------------------------------------------------------------------------
(* The state machine of the templates: the events that change the list of   *)
(* templates or the selection.  Each event takes some time, and the render  *)
(* and the saving effects of useLocalStorage that follow are part of it.    *)

currentTemplate == currentTemplateOf(templates, selectedTemplateId)

\* setTemplates and setSelectedTemplateId followed by the render and the
\* effects
SetTemplates(list, selected) ==
    /\ now < MaxNow /\ now' = now + 1
    /\ templates' = list
    /\ selectedTemplateId' = selected
    /\ localStorage' = savedTexts(list, selected)
    /\ UNCHANGED <<isInitialized, pending, effects, editMode, converterVars, uiVars>>

\* addTemplate, lines 329-352
addTemplate ==
    SetTemplates(Append(templates, NewTemplate(now)), <<"tpl", now>>)

\* removeTemplate, lines 465-484; the user answers the question
removeTemplate ==
    \E confirmed \in BOOLEAN :
        IF IsProtected(currentTemplate) \/ ~confirmed
        THEN SetTemplates(templates, selectedTemplateId)
        ELSE SetTemplates(
                 FilterFrom(templates,
                     {i \in 1..Len(templates) : templates[i].id # currentTemplate.id}, 1),
                 templates[1].id)

\* importTemplate with a file chosen, lines 506-555
importTemplate ==
    \E file \in ImportFiles :
        IF ParseThrows(file) THEN SetTemplates(templates, selectedTemplateId)
        ELSE LET templateData == file.parsed
             IN  IF templateData.t = "array"
                 THEN IF Len(templateData.a) = 0
                      THEN SetTemplates(templates, selectedTemplateId)
                      ELSE \E suffix \in [1..Len(templateData.a) -> RandomSuffixes] :
                             LET importedTemplates ==
                                     [i \in 1..Len(templateData.a) |->
                                         Imported(templateData.a[i].o,
                                                  <<"imported", now, suffix[i]>>)]
                             IN  SetTemplates(templates \o importedTemplates,
                                              importedTemplates[1].id)
                 ELSE IF templateData.t = "object"
                 THEN SetTemplates(
                          Append(templates, Imported(templateData.o, <<"imported", now>>)),
                          <<"imported", now>>)
                 ELSE SetTemplates(templates, selectedTemplateId)

\* onChange of the select of line 940
selectTemplate ==
    \E i \in 1..Len(templates) : SetTemplates(templates, templates[i].id)

\* onClick of the button of line 779
toggleEditMode ==
    /\ now < MaxNow /\ now' = now + 1
    /\ editMode' = ~editMode
    /\ UNCHANGED <<templates, selectedTemplateId, storageVars, converterVars, uiVars>>

\* validateAndUpdateDimension, lines 298-311, for the inputs of lines 1010
\* and 1021
validateAndUpdateDimension ==
    \E field \in {"widthMM", "heightMM"}, value \in DimensionEntries :
        SetTemplates(
            updateTemplate(templates, currentTemplate,
                [i \in 1..Len(templates) |->
                    [templates[i] EXCEPT ![field] = validDimension(field, value)]]),
            selectedTemplateId)

\* onMouseDownField and a move of the mouse, lines 576-602
dragField ==
    /\ editMode
    /\ \E k \in 1..Len(currentTemplate.fields), move \in Moves :
           SetTemplates(
               updateTemplate(templates, currentTemplate,
                   [i \in 1..Len(templates) |->
                       [templates[i] EXCEPT !.fields =
                           movedFields(templates[i].fields, currentTemplate.fields[k],
                                       move[1], move[2])]]),
               selectedTemplateId)

\* updateField with a font size, lines 604-609
updateField ==
    \E k \in 1..Len(currentTemplate.fields), size \in FontSizes :
        SetTemplates(
            updateTemplate(templates, currentTemplate,
                [i \in 1..Len(templates) |->
                    [templates[i] EXCEPT !.fields =
                        patchedFields(templates[i].fields,
                                      currentTemplate.fields[k].id, size)]]),
            selectedTemplateId)

NextTemplates ==
    \/ addTemplate \/ removeTemplate \/ importTemplate \/ selectTemplate
    \/ toggleEditMode \/ validateAndUpdateDimension \/ dragField \/ updateField

SpecTemplates == InitUI /\ [][NextTemplates]_vars

----------------------------------------------------------------------------
(* The state machine of useLocalStorage, lines 170-208, as Dashboard uses   *)
(* it for the templates (line 220) and for the selection (line 221).  The   *)
(* effects of a render run one after the other in the order of the hooks;   *)
(* the states they set are rendered when the last of them has run; an       *)
(* event of the page is handled when no effect and no render is waiting.    *)

\* the state of the hook of a key, and its initial value at the first render
stateOf(key) == IF key = "templates" THEN templates ELSE selectedTemplateId
initialOf(key) ==
    IF key = "templates" THEN SAMPLE_TEMPLATES ELSE SAMPLE_TEMPLATES[1].id

\* JSON.stringify(state) of line 202
stringify(key, state) ==
    IF key = "templates" THEN stringifyTemplates(state) ELSE stringifyId(state)

\* the effects of the first render, and the saving effects of a later render
\* for the keys whose dependencies changed
MountEffects ==
    << <<"load", "templates">>, <<"save", "templates">>,
       <<"load", "lastTemplateId">>, <<"save", "lastTemplateId">> >>
SaveEffects(changed) ==
    (IF "templates" \in changed THEN << <<"save", "templates">> >> ELSE << >>)
    \o (IF "lastTemplateId" \in changed
        THEN << <<"save", "lastTemplateId">> >> ELSE << >>)

\* the first render: useState(initial), useState(false), nothing has run
InitStorage ==
    /\ fn = "Dashboard" /\ pc = "render" /\ ret = Undefined
    /\ Idle
    /\ form = initialForm
    /\ useExcelRows = << >>
    /\ useCurruntRowIndex = null
    /\ amountWords \in amountWordsMemo(form.amount)
    /\ templates = initialOf("templates")
    /\ selectedTemplateId = initialOf("lastTemplateId")
    /\ editMode = FALSE
    /\ now = 0
    /\ isInitialized = [k \in Keys |-> FALSE]
    /\ localStorage \in [Keys -> StoredTemplateTexts \cup StoredIdTexts]
    /\ localStorage["templates"] \in StoredTemplateTexts
    /\ localStorage["lastTemplateId"] \in StoredIdTexts
    /\ pending = [k \in Keys |-> << >>]
    /\ effects = MountEffects

\* the effect of lines 175-196: setState(..) and setIsInitialized(true)
loadEffect ==
    /\ effects # << >>
    /\ Head(effects)[1] = "load"
    /\ LET key == Head(effects)[2]
       IN  pending' = [pending EXCEPT ![key] =
                          <<loadedState(key, initialOf(key), localStorage[key])>>]
    /\ effects' = Tail(effects)
    /\ UNCHANGED <<isInitialized, localStorage, templateVars, converterVars, uiVars>>

\* the effect of lines 199-205
saveEffect ==
    /\ effects # << >>
    /\ Head(effects)[1] = "save"
    /\ LET key == Head(effects)[2]
       IN  localStorage' =
               IF MaySave(isInitialized[key])
               THEN [localStorage EXCEPT ![key] = stringify(key, stateOf(key))]
               ELSE localStorage
    /\ effects' = Tail(effects)
    /\ UNCHANGED <<isInitialized, pending, templateVars, converterVars, uiVars>>

\* the render after the effects of the first one: the states they set
\* become the states of the hooks, and the saving effects wait
render ==
    /\ effects = << >>
    /\ \E k \in Keys : pending[k] # << >>
    /\ templates' = pending["templates"][1]
    /\ selectedTemplateId' = pending["lastTemplateId"][1]
    /\ isInitialized' = [k \in Keys |-> TRUE]
    /\ pending' = [k \in Keys |-> << >>]
    /\ effects' = SaveEffects(Keys)
    /\ UNCHANGED <<localStorage, editMode, now, converterVars, uiVars>>

\* an event of the page that calls setTemplates(list) and
\* setSelectedTemplateId(id), and the render that follows
setState ==
    /\ effects = << >>
    /\ \A k \in Keys : pending[k] = << >>
    /\ \E list \in StateLists, id \in StateIds :
          /\ templates' = list
          /\ selectedTemplateId' = id
          /\ effects' = SaveEffects(
                 (IF list # templates THEN {"templates"} ELSE {})
                 \cup (IF id # selectedTemplateId THEN {"lastTemplateId"} ELSE {}))
    /\ UNCHANGED <<isInitialized, localStorage, pending, editMode, now,
                   converterVars, uiVars>>

NextStorage == loadEffect \/ saveEffect \/ render \/ setState

SpecStorage == InitStorage /\ [][NextStorage]_vars

\* React runs the effects that wait and renders the states that were set
\* without waiting for anything
SpecStorageFair ==
    SpecStorage /\ WF_vars(loadEffect) /\ WF_vars(saveEffect) /\ WF_vars(render)

----------------------------------------------------------------------------
(* Properties of numberToArabicWords *)

\* the call of numberToArabicWords has returned
WordsDone == fn = "numberToArabicWords" /\ pc = "done"

\* an iteration of the loop over scales has just run, for scales[idx - 1]
AfterTier == fn = "numberToArabicWords" /\ pc = "loop" /\ idx > 1

\* x is a non-negative integer
IsNat(x) == x.t = "num" /\ ~x.neg /\ x.th = 0

\* the three-digit groups of a non-negative integer below 10^12, and the
\* whole of floor(x / 10^9) for a larger one: billions, millions,
\* thousands, units
Groups(x) == <<x.hi, x.lo \div 1000000, (x.lo \div 1000) % 1000, x.lo % 1000>>

LastOf(seq) == seq[Len(seq)]

\* C1: for an integer n in 1..999,999,999, the scale noun chosen and emitted
\* for a tier whose three-digit group is g is the dual form when g = 2, the
\* plural form when 3 <= g <= 10, and the singular form otherwise.
C1_ScaleNounForm ==
    (AfterTier /\ IsNat(n) /\ n.hi = 0 /\ Groups(n)[idx - 1] # 0) =>
        LET g == Groups(n)[idx - 1]
            s == scales[idx - 1]
            noun == IF g = 2 THEN s.dual
                    ELSE IF g >= 3 /\ g <= 10 THEN s.plural
                    ELSE s.sing
        IN  /\ q = IntNum(g)
            /\ scaleWord = noun
            /\ Len(words) > 0
            /\ LastOf(LastOf(words)) = noun[1]

\* the thousands tier of 11,xxx has taken the singular noun
C1_Witness ==
    /\ AfterTier /\ idx = 4 /\ IsNat(n) /\ n.hi = 0
    /\ q = IntNum(11) /\ scaleWord = <<"alf">>

\* C2: when the quotient of a tier is 1 or 2 the segment pushed is the scale
\* noun alone; for every quotient from 3 on it is the words of the quotient,
\* one space, and the scale noun.
C2_SegmentShape ==
    (AfterTier /\ isFinite(q)) =>
        LET seg == LastOf(words)
        IN  /\ IsNat(q) /\ (q.hi > 0 \/ q.lo >= 1)
            /\ (q = IntNum(1) \/ q = IntNum(2)) =>
                   (seg = scaleWord /\ Len(seg) = 1)
            /\ ~(q = IntNum(1) \/ q = IntNum(2)) =>
                   seg = underThousand(q) \o <<" ">> \o scaleWord

\* a tier with quotient 2 has pushed the dual noun alone
C2_Witness ==
    /\ AfterTier /\ q = IntNum(2) /\ LastOf(words) = <<"alfan">>

\* the tier a segment belongs to: the tier whose noun ends it, or 4 (the
\* remainder below one thousand) when no scale noun ends it
TierOf(seg) ==
    IF \E k \in 1..Len(scales) :
           LastOf(seg) \in {scales[k].sing[1], scales[k].dual[1], scales[k].plural[1]}
    THEN CHOOSE k \in 1..Len(scales) :
           LastOf(seg) \in {scales[k].sing[1], scales[k].dual[1], scales[k].plural[1]}
    ELSE 4

RECURSIVE Glue(_)
\* the segments with " wa " between every two neighbours
Glue(segs) ==
    IF Len(segs) = 0 THEN << >>
    ELSE IF Len(segs) = 1 THEN segs[1]
    ELSE segs[1] \o <<" ", "wa", " ">> \o Glue(Tail(segs))

\* C3: for an integer n in 1..999,999,999,999 the result is the segments of
\* the non-zero groups in the order billions, millions, thousands,
\* remainder, with " wa " between every two neighbours and nowhere else
\* between segments.
C3_SegmentOrder ==
    (WordsDone /\ IsNat(n) /\ ~IsZero(n) /\ n.hi <= 999) =>
        LET present == SelectSeq(<<1, 2, 3, 4>>, LAMBDA k : Groups(n)[k] # 0)
        IN  /\ Len(words) = Len(present)
            /\ \A j \in 1..Len(words) :
                   Len(words[j]) > 0 /\ TierOf(words[j]) = present[j]
            /\ ret = Glue(words)

\* a number with all four groups: four segments and three separators
C3_Witness ==
    /\ WordsDone /\ IsNat(n) /\ n.hi = 999 /\ Len(words) = 4
    /\ Groups(n)[2] = 11 /\ Groups(n)[3] = 2 /\ Groups(n)[4] = 21

----------------------------------------------------------------------------
(* Properties of underThousand *)

\* the call of underThousand has returned
UnderDone == fn = "underThousand" /\ pc = "done"

\* the words of a tens/ones value t in 1..99, from the tables
TensOnesWords(t) ==
    IF t < 20 THEN ones[t + 1]
    ELSE IF t % 10 = 0 THEN tens[(t \div 10) + 1]
    ELSE ones[(t % 10) + 1] \o <<" ", "wa", " ">> \o tens[(t \div 10) + 1]

\* C4: for t in 1..99 the tens/ones part of underThousand is the entry
\* ones[t] when t < 20, the tens word alone when t is a multiple of ten, and
\* otherwise the ones word, the conjunction, the tens word, in that order.
\* The part is the whole result when the hundreds digit is 0 and the end of
\* the result otherwise.
C4_TensOnesPart ==
    (UnderDone /\ num.lo % 100 # 0) =>
        LET t == num.lo % 100
            part == TensOnesWords(t)
        IN  /\ Len(part) > 0
            /\ Len(ret) >= Len(part)
            /\ SubSeq(ret, Len(ret) - Len(part) + 1, Len(ret)) = part
            /\ num.lo < 100 => ret = part
            /\ LastOf(underThousandParts(num)) = part

\* 21 is "one and twenty"
C4_Witness ==
    /\ UnderDone /\ num = IntNum(21)
    /\ ret = <<"wahid", " ", "wa", " ", "ishrun">>

\* C5: for n in 0..999 with h = floor(n / 100) and t = n mod 100 the result
\* is empty when n = 0, the entry hundreds[h] when t = 0, the tens/ones part
\* when h = 0, and the hundreds entry, " wa ", the tens/ones part when
\* both are non-zero; the hundreds entry is a single word.
C5_UnderThousandShape ==
    (UnderDone /\ IsNat(num) /\ num.hi = 0 /\ num.lo <= 999) =>
        LET h == num.lo \div 100
            t == num.lo % 100
        IN  /\ (h = 0 /\ t = 0) => ret = << >>
            /\ (h > 0 /\ t = 0) => ret = hundreds[h + 1]
            /\ (h = 0 /\ t > 0) => ret = TensOnesWords(t)
            /\ (h > 0 /\ t > 0) =>
                   ret = hundreds[h + 1] \o <<" ", "wa", " ">> \o TensOnesWords(t)
            /\ h > 0 => (Len(hundreds[h + 1]) = 1 /\ ret[1] = hundreds[h + 1][1])
            /\ h = 2 => ret[1] = "miatan"

\* 215: the hundreds entry, the conjunction, the teen
C5_Witness ==
    /\ UnderDone /\ num = IntNum(215)
    /\ ret = <<"miatan", " ", "wa", " ", "khamsa", " ", "ashar">>

----------------------------------------------------------------------------
(* Properties of the special cases and of the input conversion *)

Contains(text, w) == \E k \in 1..Len(text) : text[k] = w

\* C6: numberToArabicWords(0) is the single word for zero, and the result
\* for an integer n >= 1 never contains that word.
C6_ZeroWord ==
    WordsDone =>
        /\ arg = IntNum(0) => ret = <<"sifr">>
        /\ (IsNat(n) /\ ~IsZero(n)) => ~Contains(ret, "sifr")

\* the call with 0 has returned the word for zero
C6_Witness == WordsDone /\ arg = IntNum(0) /\ ret = <<"sifr">>

IsNonFinite(v) == v.t \in {"nan", "inf"}

\* C7: for NaN, +Infinity and -Infinity the function returns the empty
\* string from its first statements: the loop is never entered.
C7_NonFiniteEmpty ==
    (fn = "numberToArabicWords" /\ IsNonFinite(arg) /\ pc # "call") =>
        (pc = "done" /\ ret = << >> /\ idx = 0 /\ words = << >>)

\* the call with -Infinity has returned
C7_Witness == WordsDone /\ arg = Infinity(TRUE) /\ ret = << >>

\* a string with a character that is neither a space nor a digit
IsNonNumericString(v) == v.t = "str" /\ \E k \in 1..Len(v.s) : v.s[k] = "a"
\* the empty string, or a string of spaces only
IsBlankString(v) == v.t = "str" /\ \A k \in 1..Len(v.s) : v.s[k] = " "

\* C8 as stated: for null, undefined, the empty string, a blank string and
\* a non-numeric string the function returns the empty string.
C8_NonNumericEmpty ==
    (WordsDone /\ (arg.t \in {"null", "undefined"} \/ IsBlankString(arg)
                   \/ IsNonNumericString(arg))) =>
        ret = << >>

\* C8 as amended: the function returns the empty string for undefined and
\* for a non-numeric string (Number gives NaN); for null, the empty string
\* and a blank string (Number gives 0) it returns the word for zero; and
\* every such call returns at its first statements.
C8_NonNumericByCoercion ==
    (fn = "numberToArabicWords" /\ pc # "call"
     /\ (arg.t \in {"null", "undefined"} \/ IsBlankString(arg)
         \/ IsNonNumericString(arg))) =>
        /\ pc = "done" /\ idx = 0
        /\ (arg.t = "undefined" \/ IsNonNumericString(arg)) => ret = << >>
        /\ (arg.t = "null" \/ IsBlankString(arg)) => ret = <<"sifr">>

\* the call with a blank string has returned the word for zero
C8_Witness == WordsDone /\ arg = Str(<<" ">>) /\ ret = <<"sifr">>

\* a string neither starts nor ends with the conjunction or a space, and no
\* two conjunctions follow each other with no word between them
WellJoined(text) ==
    /\ Len(text) > 0 => (text[1] \notin {" ", "wa"} /\ LastOf(text) \notin {" ", "wa"})
    /\ \A j, k \in 1..Len(text) :
           (j < k /\ text[j] = "wa" /\ text[k] = "wa") =>
               \E m \in (j + 1)..(k - 1) : text[m] \notin {" ", "wa"}

\* C9 as stated: the result for any finite number is well joined.
C9_WellJoinedAnyFinite ==
    (WordsDone /\ arg.t = "num") => WellJoined(ret)

\* C9 as amended: the result for an integer in 0..999,999,999,999 is well
\* joined.
C9_WellJoinedInRange ==
    (WordsDone /\ IsNat(arg) /\ arg.hi <= 999) => WellJoined(ret)

\* a result with six conjunctions: 21 billion 21 million 21 thousand 21
C9_Witness ==
    /\ WordsDone /\ IsNat(arg) /\ arg.hi = 11 /\ Len(words) = 4
    /\ Groups(arg)[2] = 21 /\ Groups(arg)[3] = 21 /\ Groups(arg)[4] = 21

----------------------------------------------------------------------------
(* Properties of formatArabicCurrencyWords *)

FormatDone == fn = "formatArabicCurrencyWords" /\ pc = "done"

\* the unit nouns in force
MainUnitOf(v) == IF v = Undefined THEN <<"junayh">> ELSE v
SubUnitOf(v)  == IF v = Undefined THEN <<"qirsh">> ELSE v

\* C10: for a finite amount the result is the integer words, the main unit,
\* " wa ", the fraction words and the sub unit exactly when the fraction is
\* above 0, and the integer words and the main unit alone exactly when the
\* fraction is 0.
C10_TwoForms ==
    (FormatDone /\ isFinite(amount)) =>
        LET short == numberToArabicWords(integer) \o <<" ">> \o MainUnitOf(currencyMain)
            long  == short \o <<" ", "wa", " ">> \o numberToArabicWords(fraction)
                     \o <<" ">> \o SubUnitOf(currencySub)
        IN  /\ isFinite(fraction) /\ IsNat(fraction)
            /\ (ret = long) <=> ~IsZero(fraction)
            /\ (ret = short) <=> IsZero(fraction)
            /\ IsZero(fraction) => LastOf(ret) = LastOf(MainUnitOf(currencyMain))

\* 1234.56 with the units of the user interface
C10_Witness ==
    /\ FormatDone /\ amount = Num(FALSE, 0, 1234, 560)
    /\ fraction = IntNum(56) /\ currencyMain = <<"junayh", " ", "masri">>
    /\ LastOf(ret) = "qirsh"

\* C11: integer is floor(|amount|) and fraction is (|amount| - integer) * 100
\* rounded to the nearest integer, not truncated: for an amount with at most
\* two decimals the fraction is its hundredths, in 0..99, and for one with
\* three decimals it is an integer number of hundredths nearest to it.
C11_IntegerAndFraction ==
    (FormatDone /\ isFinite(amount)) =>
        /\ integer = Num(FALSE, amount.hi, amount.lo, 0)
        /\ IsNat(fraction) /\ fraction.hi = 0
        /\ amount.th % 10 = 0 =>
               (fraction.lo = amount.th \div 10 /\ fraction.lo <= 99)
        /\ 10 * fraction.lo - amount.th <= 5
        /\ amount.th - 10 * fraction.lo <= 5

\* 1.566 has 57 hundredths: rounded up, where truncation gives 56
C11_Witness ==
    /\ FormatDone /\ amount = Num(FALSE, 0, 1, 566)
    /\ integer = IntNum(1) /\ fraction = IntNum(57)

\* C12: when the decimals of |amount| are above .995 the fraction is 100 and
\* the words for 100 sub units are emitted, the integer part staying
\* floor(|amount|); at the decimal .995 itself the double is on one side of
\* the half and the fraction is 99 or 100.  The fraction passed on ranges
\* over 0..100.
C12_FractionOfHundred ==
    (FormatDone /\ isFinite(amount)) =>
        /\ IsNat(fraction) /\ fraction.hi = 0 /\ fraction.lo <= 100
        /\ amount.th > 995 => fraction = IntNum(100)
        /\ amount.th = 995 => fraction \in {IntNum(99), IntNum(100)}
        /\ amount.th < 995 => fraction.lo <= 99
        /\ fraction = IntNum(100) =>
               /\ integer = Num(FALSE, amount.hi, amount.lo, 0)
               /\ ret = numberToArabicWords(integer) \o <<" ">>
                        \o MainUnitOf(currencyMain)
                        \o <<" ", "wa", " ", "mia", " ">> \o SubUnitOf(currencySub)

\* 1.999 is "one pound and one hundred piastres"
C12_Witness ==
    /\ FormatDone /\ amount = Num(FALSE, 0, 1, 999)
    /\ currencyMain = Undefined /\ currencySub = Undefined
    /\ integer = IntNum(1) /\ fraction = IntNum(100)
    /\ ret = <<"wahid", " ", "junayh", " ", "wa", " ", "mia", " ", "qirsh">>

\* the amount with the other sign
Negated(x) == [x EXCEPT !.neg = ~x.neg]

\* C13: the sign of the amount is ignored: what a call returns for an
\* amount is what a call returns for the negated amount, and
\* numberToArabicWords is passed no negative number.
C13_SignIgnored ==
    FormatDone =>
        /\ ~integer.neg /\ ~fraction.neg
        /\ ret \in formatArabicCurrencyWords(Negated(amount), currencyMain, currencySub)
        /\ formatArabicCurrencyWords(Negated(amount), currencyMain, currencySub)
           = formatArabicCurrencyWords(amount, currencyMain, currencySub)

\* -1234.56 reads as 1234.56
C13_Witness ==
    /\ FormatDone /\ amount = Num(TRUE, 0, 1234, 560)
    /\ integer = IntNum(1234) /\ fraction = IntNum(56)
    /\ LastOf(ret) = "qirsh"

\* text holds the string part at the positions from..(from + Len(part) - 1)
HoldsAt(text, from, part) ==
    /\ from + Len(part) - 1 <= Len(text)
    /\ SubSeq(text, from, from + Len(part) - 1) = part

\* C14: the unit nouns of the result are the strings passed, as passed, or
\* "junayh" and "qirsh" where none is passed; and the words before and
\* between them are those of the integer and of the fraction alone, the
\* same for every pair of units.
C14_UnitsVerbatim ==
    FormatDone =>
        LET main == IF currencyMain = Undefined THEN <<"junayh">> ELSE currencyMain
            sub  == IF currencySub = Undefined THEN <<"qirsh">> ELSE currencySub
            iw   == numberToArabicWords(integer)
            fw   == numberToArabicWords(fraction)
            m0   == Len(iw) + 2
            f0   == m0 + Len(main) + 3
            s0   == f0 + Len(fw) + 1
        IN  /\ HoldsAt(ret, 1, iw \o <<" ">>)
            /\ HoldsAt(ret, m0, main)
            /\ ~Truthy(fraction) => Len(ret) = m0 + Len(main) - 1
            /\ Truthy(fraction) =>
                   /\ HoldsAt(ret, m0 + Len(main), <<" ", "wa", " ">>)
                   /\ HoldsAt(ret, f0, fw \o <<" ">>)
                   /\ HoldsAt(ret, s0, sub)
                   /\ Len(ret) = s0 + Len(sub) - 1

\* 2.56 with a main unit of two words and a sub unit that is not the default
C14_Witness ==
    /\ FormatDone /\ amount = Num(FALSE, 0, 2, 560)
    /\ currencyMain = <<"junayh", " ", "masri">> /\ currencySub = <<"millim">>
    /\ ret = <<"ithnan", " ", "junayh", " ", "masri", " ", "wa", " ",
               "sitta", " ", "wa", " ", "khamsun", " ", "millim">>

----------------------------------------------------------------------------
(* Properties of the failure cases and of the range of numberToArabicWords *)

\* C16 as stated: no call with a number raises, and a conversion that
\* fails returns the empty string: numberToArabicWords for a non-finite
\* number, and formatArabicCurrencyWords for a NaN or infinite amount.
C16_FailureIsEmptyString ==
    /\ (WordsDone /\ IsNonFinite(arg)) => ret = << >>
    /\ (FormatDone /\ IsNonFinite(amount)) => ret = << >>

\* the nouns of tier k
NounsOf(k) == {scales[k].sing[1], scales[k].dual[1], scales[k].plural[1]}

\* C17: for an integer n >= 10^12 the billions tier takes floor(n / 10^9)
\* whole as its quotient, leaving n mod 10^9; no tier is added before it;
\* the segments that follow are those of n mod 10^9; and the call returns
\* a string.
C17_ExcessInBillions ==
    /\ (AfterTier /\ idx = 2 /\ IsNat(n) /\ n.hi >= 1000) =>
           /\ q = IntNum(n.hi)
           /\ remainder = IntNum(n.lo)
           /\ Len(words) = 1 /\ LastOf(words[1]) \in NounsOf(1)
    /\ (WordsDone /\ IsNat(n) /\ n.hi >= 1000) =>
           /\ ret # Undefined
           /\ Len(words) >= 1 /\ LastOf(words[1]) \in NounsOf(1)
           /\ \A j \in 2..Len(words) : LastOf(words[j]) \notin NounsOf(1)
           /\ Glue(Tail(words)) = IF n.lo = 0 THEN << >>
                                  ELSE numberToArabicWords(IntNum(n.lo))

\* 1,005,021,002,011: the quotient of the billions tier is 1005
C17_Witness ==
    /\ WordsDone /\ IsNat(n) /\ n.hi = 1005 /\ n.lo = 21002011
    /\ Len(words) = 4
    /\ ret = <<" ", "wa", " ", "khamsa", " ", "milyar", " ", "wa", " ",
               "wahid", " ", "wa", " ", "ishrun", " ", "milyun", " ", "wa", " ",
               "alfan", " ", "wa", " ", "ahad", " ", "ashar">>

\* the number of conjunctions in a string
WaCount(text) == Cardinality({k \in 1..Len(text) : text[k] = "wa"})

\* the number of conjunctions in the words of a group g in 1..999
WaInGroup(g) ==
    (IF g \div 100 > 0 /\ g % 100 > 0 THEN 1 ELSE 0)
    + (IF g % 100 >= 20 /\ g % 10 # 0 THEN 1 ELSE 0)

\* the number of conjunctions in the segment of group g of tier k (tier 4
\* is the remainder); a tier with quotient 1 or 2 has the noun alone
WaInSegment(k, g) ==
    IF g = 0 THEN 0
    ELSE IF k < 4 /\ g <= 2 THEN 0
    ELSE WaInGroup(g)

\* C20: for an integer n in 1..999,999,999,999 the noun of a tier is in the
\* result exactly when the group of that tier is not 0, the segment of the
\* remainder is there exactly when n mod 1000 is not 0, and a group of 0
\* adds neither a segment nor a conjunction.
C20_SegmentIffGroup ==
    (WordsDone /\ IsNat(n) /\ ~IsZero(n) /\ n.hi <= 999) =>
        LET g == Groups(n)
            present == {k \in 1..4 : g[k] # 0}
        IN  /\ \A k \in 1..3 :
                   (\E j \in 1..Len(ret) : ret[j] \in NounsOf(k)) <=> g[k] # 0
            /\ (Len(words) > 0 /\ TierOf(LastOf(words)) = 4) <=> g[4] # 0
            /\ Len(words) = Cardinality(present)
            /\ WaCount(ret) = (Cardinality(present) - 1)
                   + WaInSegment(1, g[1]) + WaInSegment(2, g[2])
                   + WaInSegment(3, g[3]) + WaInSegment(4, g[4])

\* 1,000,003: the million segment and the remainder, one conjunction
C20_Witness ==
    /\ WordsDone /\ n = IntNum(1000003)
    /\ ret = <<"milyun", " ", "wa", " ", "thalatha">>

----------------------------------------------------------------------------
(* Properties of the Dashboard component and of toArabicNumerals *)

\* C18 as stated: amountWords is the empty string when Number(form.amount)
\* is NaN and otherwise the result of formatArabicCurrencyWords for
\* Number(form.amount) with the units of the Egyptian pound; and after any
\* sequence of form edits and row loads amountWords is empty or starts with
\* a non-empty clause of integer words.
C18_AmountWordsRenderable ==
    /\ isNaN(Number(form.amount)) => amountWords = << >>
    /\ ~isNaN(Number(form.amount)) =>
           amountWords \in formatArabicCurrencyWords(Number(form.amount),
                                                     EgyptianPound, Qirsh)
    /\ amountWords = << >> \/ amountWords[1] # SP

NumeralsDone == fn = "toArabicNumerals" /\ pc = "done"

\* the index in westernNumerals of a character, 0 for what is no digit
WesternIndex(c) ==
    IF \E i \in 1..Len(westernNumerals) : westernNumerals[i] = c
    THEN CHOOSE i \in 1..Len(westernNumerals) : westernNumerals[i] = c
    ELSE 0

\* C19: toArabicNumerals gives a string of the length of its input in which
\* every Western digit is replaced by the Eastern Arabic digit of the same
\* index and every other character is the character of the input; the
\* result has no Western digit, and the function applied to its result gives
\* the result again.
C19_DigitsReplaced ==
    NumeralsDone =>
        LET in == toString(str)
        IN  /\ Len(ret) = Len(in)
            /\ \A k \in 1..Len(in) :
                   ret[k] = IF WesternIndex(in[k]) > 0
                            THEN arabicNumerals[WesternIndex(in[k])]
                            ELSE in[k]
            /\ \A k \in 1..Len(ret) : WesternIndex(ret[k]) = 0
            /\ toArabicNumerals(Str(ret)) = ret

\* "1.1" has become the Eastern Arabic one, the point, the Eastern Arabic one
C19_Witness ==
    /\ NumeralsDone /\ str = Str(<<"1", ".", "1">>)
    /\ ret = <<"ar1", ".", "ar1">>

----------------------------------------------------------------------------
(* Properties of the intermediate values of numberToArabicWords *)

\* the entries of the lexicon that are words: ones[1..19], tens[2..9],
\* hundreds[1..9]
OnesWords == { ones[k + 1] : k \in 1..19 }
UnitWords == { ones[k + 1] : k \in 1..9 }
TensWords == { tens[k + 1] : k \in 2..9 }
HundredsWords == { hundreds[k + 1] : k \in 1..9 }

\* every element pushed by underThousand(x) is a word of the lexicon, or a
\* unit word and a tens word around the conjunction
PartsFromLexicon(x) ==
    \A k \in 1..Len(underThousandParts(x)) :
        LET p == underThousandParts(x)[k]
        IN  \/ p \in OnesWords \cup TensWords \cup HundredsWords
            \/ \E o \in UnitWords, t \in TensWords : p = o \o Sep \o t

\* an integer in lo..hi
InRange(x, lo, hi) == IsNat(x) /\ x.hi = 0 /\ lo <= x.lo /\ x.lo <= hi

\* C21: for an integer n in 1..999,999,999,999 the argument of every call
\* of underThousand (the quotient of a tier entered, and the remainder that
\* is pushed at the end) is an integer in 1..999, the remainder after the
\* tier of value V is an integer in 0..V-1, and every element that
\* underThousand pushes comes from defined, non-empty entries of the lexicon.
C21_IntermediateRanges ==
    /\ (fn = "underThousand" /\ InRange(num, 1, 999)) => PartsFromLexicon(num)
    /\ (fn = "numberToArabicWords" /\ IsNat(n) /\ ~IsZero(n) /\ n.hi <= 999) =>
            /\ AfterTier =>
                   /\ InRange(remainder, 0, scales[idx - 1].value - 1)
                   /\ q # NoTier.q =>
                          /\ InRange(q, 1, 999)
                          /\ PartsFromLexicon(q)
                          /\ qWords # << >> /\ ~Contains(qWords, "undefined")
            /\ (pc = "loop" /\ idx > Len(scales) /\ Truthy(remainder)) =>
                   /\ InRange(remainder, 1, 999)
                   /\ PartsFromLexicon(remainder)
            /\ WordsDone => \A k \in 1..Len(words) : words[k] # << >>

\* 999,999,021,011 after the million tier: the quotient is 999 and the
\* remainder is 21,011
C21_Witness ==
    /\ AfterTier /\ idx = 3 /\ n = Num(FALSE, 999, 999021011, 0)
    /\ q = IntNum(999) /\ remainder = IntNum(21011)
    /\ qWords = <<"tisumia", " ", "wa", " ", "tisaa", " ", "wa", " ", "tisun">>

----------------------------------------------------------------------------
(* Injectivity *)

\* the integers of the documented range, 0..999,999,999, among the arguments
DocumentedArgs == { x \in IntegerArgs : x.hi = 0 }

\* the result of numberToArabicWords for each of them
WordsOf == [m \in DocumentedArgs |-> numberToArabicWords(m)]

\* the integer parts and the hundredths that amounts are compared with
ComparedIntegers == { IntNum(w) : w \in (0..MaxSmallWhole) \cup {11, 1234} }
ComparedHundredths == { IntNum(f) : f \in {0, 1, 2, 10, 11, 21, 56, 57, 99} }

\* the result of formatArabicCurrencyWords for each integer part, hundredths
\* value and pair of units
FormatOf ==
    [i \in ComparedIntegers, f \in ComparedHundredths,
     m \in MainUnits, s \in SubUnits |-> formatReturn(i, f, m, s)]

\* C22: no other integer of 0..999,999,999 gives the string that
\* numberToArabicWords has returned for an integer of that range; and no
\* amount with another integer part or another hundredths value (0..99) gives
\* the string that formatArabicCurrencyWords has returned, for the same units.
C22_Injective ==
    /\ (WordsDone /\ IsNat(n) /\ n.hi = 0) =>
           \A m \in DocumentedArgs : WordsOf[m] = ret => m = n
    /\ (FormatDone /\ isFinite(amount) /\ integer.hi = 0 /\ LE(fraction, 99)) =>
           \A i \in ComparedIntegers, f \in ComparedHundredths :
               FormatOf[i, f, currencyMain, currencySub] = ret =>
                   (i = integer /\ f = fraction)

\* 3,000 and 10,000 have the same noun and differ in the words before it
C22_Witness ==
    /\ WordsDone /\ n = IntNum(3000) /\ ret = <<"thalatha", " ", "alaf">>
    /\ WordsOf[IntNum(10000)] = <<"ashara", " ", "alaf">>

----------------------------------------------------------------------------
(* The empty string as the sign of an input that is rejected *)

\* C23 as stated: for every finite number, negative and fractional numbers
\* included, numberToArabicWords returns a string that is not empty.
C23_EmptyOnlyNonFinite ==
    (WordsDone /\ IsNumber(arg) /\ isFinite(arg)) => ret # << >>

\* C23 as amended: numberToArabicWords returns the empty string for every
\* non-finite number and a string that is not empty for every non-negative
\* integer; when it returns the empty string for a finite number, the number
\* is negative or has a fractional part.
C23_EmptyOutsideNaturals ==
    (WordsDone /\ IsNumber(arg)) =>
        /\ IsNonFinite(arg) => ret = << >>
        /\ (IsNat(arg) \/ IsZero(arg)) => ret # << >>
        /\ (isFinite(arg) /\ ret = << >>) => (arg.neg \/ arg.th # 0)

\* -100 has given the empty string
C23_Witness ==
    /\ WordsDone /\ arg = Num(TRUE, 0, 100, 0) /\ ret = << >>
    /\ words = << << >> >>

----------------------------------------------------------------------------
(* Properties of the navigation through the rows of the sheet *)

\* the row at the current index
CurrentRow == useExcelRows[useCurruntRowIndex.lo + 1]

\* a step of handleNext or handlePrev that has moved the index
RowStep ==
    /\ Len(useExcelRows) > 0
    /\ useExcelRows' = useExcelRows
    /\ useCurruntRowIndex' # useCurruntRowIndex

\* C27 as stated: with at least one data row the index stays within
\* 0..(number of rows - 1), handleNext at the last row and handlePrev at the
\* first row do nothing, and after a step to another row the payee, amount,
\* date and bank of the form are the fields of the row at the new index.
C27_RowNavigation ==
    /\ [](Len(useExcelRows) > 0 =>
             /\ InRange(useCurruntRowIndex, 0, Len(useExcelRows) - 1)
             /\ useCurruntRowIndex.lo = Len(useExcelRows) - 1 => ~ENABLED handleNext
             /\ useCurruntRowIndex.lo = 0 => ~ENABLED handlePrev)
    /\ [][RowStep =>
             /\ form'.payee = CurrentRow'.name
             /\ form'.amount = CurrentRow'.amount
             /\ form'.date = CurrentRow'.date
             /\ form'.bank = CurrentRow'.bank]_vars

----------------------------------------------------------------------------
(* Properties of the list of templates *)

\* C24: the list of templates is never empty and its first template is the
\* default template, marked isDefault; every imported template has isDefault
\* false; and a step from a state whose current template is marked isDefault
\* removes no template, while any other step that shortens the list removes
\* the templates with the id of the current template and no other.
C24_DefaultKept ==
    /\ [](/\ Len(templates) >= 1
          /\ templates[1].id = DefaultId
          /\ templates[1].isDefault = Bool(TRUE)
          /\ \A i \in 1..Len(templates) :
                 templates[i].id[1] = "imported" =>
                     templates[i].isDefault = Bool(FALSE))
    /\ [][/\ ~Falsy(currentTemplate.isDefault) =>
                 \A i \in 1..Len(templates) :
                     \E j \in 1..Len(templates') : templates'[j].id = templates[i].id
          /\ Len(templates') < Len(templates) =>
                 templates' = FilterFrom(templates,
                     {i \in 1..Len(templates) : templates[i].id # currentTemplate.id}, 1)
       ]_vars

\* the exported default template has been imported: the copy is not default,
\* is the current template, and the default template is still the first
C24_Witness ==
    /\ Len(templates) = 2
    /\ templates[1] = SAMPLE_TEMPLATES[1]
    /\ templates[2].id = <<"imported", 0>>
    /\ templates[2].name = <<"DEFAULT", " ", "(imported)">>
    /\ templates[2].isDefault = Bool(FALSE)
    /\ currentTemplate = templates[2]

\* a <= b for two numbers that are not NaN
AtMost(a, b) == ~Less(b, a)

\* the position in the list of the templates that updateTemplate maps
IsCurrent(i) == templates[i].id = currentTemplate.id

\* field k of template i is as it was, but for its x and y
OnlyMoved(i, k) ==
    templates'[i].fields[k] =
        [templates[i].fields[k] EXCEPT !.x = templates'[i].fields[k].x,
                                       !.y = templates'[i].fields[k].y]

\* template i is as it was, but for the keys of the set changed
OnlyChanged(i, changed) ==
    \A key \in DOMAIN templates[i] \ changed :
        templates'[i][key] = templates[i][key]

\* C28: a step that keeps the length of the list leaves every template
\* whose id is not the id of the current template as it was.  When the x or
\* the y of a field changes, the template changes in its fields only, one
\* field changes, in its x and y only, and both are within 0..98.  When
\* widthMM or heightMM changes, nothing else of the template changes, and
\* the width stored is within 100..250 and the height within 50..150.
C28_UpdateFrame ==
    [][Len(templates') = Len(templates) =>
          \A i \in 1..Len(templates) :
              /\ ~IsCurrent(i) => templates'[i] = templates[i]
              /\ (\E k \in 1..Len(templates[i].fields) :
                      \/ templates'[i].fields[k].x # templates[i].fields[k].x
                      \/ templates'[i].fields[k].y # templates[i].fields[k].y) =>
                     /\ OnlyChanged(i, {"fields"})
                     /\ \E k \in 1..Len(templates[i].fields) :
                            /\ OnlyMoved(i, k)
                            /\ templates'[i].fields[k].x \in 0..98
                            /\ templates'[i].fields[k].y \in 0..98
                            /\ \A j \in 1..Len(templates[i].fields) :
                                   j # k => templates'[i].fields[j] = templates[i].fields[j]
              /\ templates'[i].widthMM # templates[i].widthMM =>
                     /\ OnlyChanged(i, {"widthMM"})
                     /\ AtMost(IntNum(100), templates'[i].widthMM)
                     /\ AtMost(templates'[i].widthMM, IntNum(250))
              /\ templates'[i].heightMM # templates[i].heightMM =>
                     /\ OnlyChanged(i, {"heightMM"})
                     /\ AtMost(IntNum(50), templates'[i].heightMM)
                     /\ AtMost(templates'[i].heightMM, IntNum(150))
    ]_vars

\* the date field of a new template has been moved by (200, -200) from
\* (70, 8) and is at (98, 0); the default template is as it was
C28_Witness ==
    /\ Len(templates) = 2
    /\ templates[1] = SAMPLE_TEMPLATES[1]
    /\ templates[2].id = <<"tpl", 1>>
    /\ templates[2].fields[1] = [id |-> "date", x |-> 98, y |-> 0, fontSize |-> 14]
    /\ templates[2].fields[2] = DEFAULT_FIELDS[2]

----------------------------------------------------------------------------
(* Properties of useLocalStorage *)

\* the effect of lines 175-196 runs for a key in this step
Loads(key) ==
    /\ effects # << >>
    /\ Head(effects) = <<"load", key>>
    /\ effects' = Tail(effects)

\* the effect of lines 199-205 runs for a key in this step
Saves(key) ==
    /\ effects # << >>
    /\ Head(effects) = <<"save", key>>
    /\ effects' = Tail(effects)

\* a text that is missing, empty or no JSON
MissingOrUnparsable(raw) ==
    IF raw = null THEN TRUE ELSE raw.parsed.t \in {"empty", "error"}

\* a text that holds a list of templates
HoldsTemplates(raw) ==
    /\ ~MissingOrUnparsable(raw)
    /\ raw.parsed.t = "array"
    /\ \A i \in 1..Len(raw.parsed.a) : raw.parsed.a[i].t = "object"

\* the templates that a text holds
TemplatesIn(raw) == [i \in 1..Len(raw.parsed.a) |-> raw.parsed.a[i].o]

MarkedDefault(t) == t.isDefault = Bool(TRUE)
NotMarkedDefault(t) == ~MarkedDefault(t)

\* C25: when the effect that loads the templates runs, the state it sets is
\* the default templates of the initial value followed by the stored
\* templates that are not default, in their stored order, if the stored
\* text holds a list of templates; it is the initial value if the text is
\* missing or cannot be parsed; whatever is stored, the state begins with
\* the default templates of the initial value, and it is the state of the
\* hook after the render that follows.
C25_LoadMerge ==
    /\ [][Loads("templates") =>
            LET raw == localStorage["templates"]
                loaded == pending'["templates"][1]
                defaults == SelectSeq(SAMPLE_TEMPLATES, MarkedDefault)
            IN  /\ HoldsTemplates(raw) =>
                       loaded = defaults
                                \o SelectSeq(TemplatesIn(raw), NotMarkedDefault)
                /\ MissingOrUnparsable(raw) => loaded = SAMPLE_TEMPLATES
                /\ Len(loaded) >= Len(defaults)
                /\ SubSeq(loaded, 1, Len(defaults)) = defaults]_vars
    /\ [][~isInitialized["templates"] /\ isInitialized'["templates"] =>
            templates' = pending["templates"][1]]_vars

\* the stored list held a resized copy of the default template between a
\* template of the user and an imported one; the loaded list is the default
\* template followed by the two others
C25_Witness ==
    /\ localStorage["templates"] =
           stringifyTemplates(<<NewTemplate(0), ResizedDefault,
                                Imported(SAMPLE_TEMPLATES[1], <<"imported", 0>>)>>)
    /\ ~isInitialized["templates"]
    /\ pending["templates"] =
           << <<SAMPLE_TEMPLATES[1], NewTemplate(0),
                Imported(SAMPLE_TEMPLATES[1], <<"imported", 0>>)>> >>

\* the stored text of a key is the state of its hook
InSync(key) == localStorage[key] = stringify(key, stateOf(key))

\* no effect waits and no state waits for a render
Settled == effects = << >> /\ \A k \in Keys : pending[k] = << >>

====
